---- MODULE Spec2Model ----
(***************************************************************************)
(* The Kraskov (KSG) mutual-information estimators of                      *)
(* src/src/bmi/estimators/ksg.py: the neighborhood validator, the          *)
(* brute-force ensemble estimator KSGEnsembleFirstEstimator and the        *)
(* accelerated KSGEnsembleChebyshevEstimator, as a state machine over the  *)
(* estimator object, the mapping objects it hands out and the caller's     *)
(* point clouds.                                                           *)
(*                                                                         *)
(* Numbers.  The code computes in float64; the model computes the same     *)
(* expressions exactly.  A point cloud is an n x 1 matrix (one column per  *)
(* marginal space, as in the repository's tests), so a standardized entry  *)
(* is c / sqrt(v) for integers c, v and every distance comparison is a     *)
(* comparison of squared distances, which are rationals.  digamma at a     *)
(* positive integer m is H(m-1) - gamma (H the harmonic number, gamma      *)
(* Euler's constant): a value is q + g*gamma with q, g rational, or one of *)
(* inf, -inf, nan.                                                         *)
(***************************************************************************)
EXTENDS Integers, Sequences, FiniteSets, TLC

VARIABLES
    est,        \* the estimator object the caller holds (NoEstimator: none yet)
    mi_heap,    \* the dict objects: the estimator's own and the one last returned
    held,       \* the reference to a dict the caller was handed, or None
    callerX,    \* the caller's array X as it is now
    callerY,    \* the caller's array Y as it is now
    passed,     \* what the caller's arrays held when the last call began
    result,     \* the last call: its name, arguments and what it raised or returned
    everFitted  \* whether a fit of the held estimator has ever returned normally

vars == <<est, mi_heap, held, callerX, callerY, passed, result, everFitted>>

\* ------------------------------------------------------------------ bounds
\* Rows of a point cloud handed to a single call (SpecFit).
MaxPoints == 4
\* Rows of the sample the caller feeds prefixes of over an estimator's life (Spec).
MaxLifePoints == 3
\* Largest neighborhood size offered to a constructor or to predict().
MaxK == 2
\* Longest neighborhoods sequence offered to a constructor or to predict().
MaxNbhLen == 2
\* Coordinates of the points.
Coords == {0, 1}

None == "None"

\* ------------------------------------------------------------- evaluation
\* The one element of a singleton set.
Only(S) == CHOOSE v \in S : TRUE

\* F at the value of x (x is evaluated once, however often F uses it).
Bind(x, F(_)) == Only({F(a) : a \in {x}})
Bind2(x, y, F(_, _)) == Only({F(a, b) : a \in {x}, b \in {y}})

\* A finite sequence given as a function, with its elements evaluated.
List(f) == f \o <<>>

\* ------------------------------------------------------- exact arithmetic
Abs(a) == IF a < 0 THEN -a ELSE a

RECURSIVE Gcd(_, _)
Gcd(a, b) == IF b = 0 THEN Abs(a) ELSE Gcd(b, a % b)

\* A rational n/d in lowest terms with d > 0.
Rat(n, d) ==
    Bind2(n, d, LAMBDA p, q :
        Bind(Gcd(p, Abs(q)), LAMBDA g :
            [n |-> ((IF q < 0 THEN -1 ELSE 1) * p) \div g, d |-> Abs(q) \div g]))

RZero == [n |-> 0, d |-> 1]
RAdd(x, y) == Bind2(x, y, LAMBDA a, b : Rat(a.n * b.d + b.n * a.d, a.d * b.d))
RNeg(x) == Bind(x, LAMBDA a : [n |-> -a.n, d |-> a.d])
RSub(x, y) == RAdd(x, RNeg(y))
RDivInt(x, m) == Bind(x, LAMBDA a : Rat(a.n, a.d * m))
RLess(x, y) == Bind2(x, y, LAMBDA a, b : a.n * b.d < b.n * a.d)

RECURSIVE Harmonic(_)
Harmonic(m) == IF m <= 0 THEN RZero ELSE RAdd(Harmonic(m - 1), Rat(1, m))

\* float64 values: finite q + g*gamma, or inf, -inf, nan.
Fin(q, g) == [kind |-> "fin", q |-> q, g |-> g]
PosInf == [kind |-> "inf", q |-> RZero, g |-> RZero]
NegInf == [kind |-> "-inf", q |-> RZero, g |-> RZero]
NaN == [kind |-> "nan", q |-> RZero, g |-> RZero]
Zero == Fin(RZero, RZero)

VNeg(x) ==
    Bind(x, LAMBDA a :
        CASE a.kind = "fin" -> Fin(RNeg(a.q), RNeg(a.g))
          [] a.kind = "inf" -> NegInf
          [] a.kind = "-inf" -> PosInf
          [] OTHER -> NaN)

VAdd(x, y) ==
    Bind2(x, y, LAMBDA a, b :
        CASE a.kind = "nan" \/ b.kind = "nan" -> NaN
          [] a.kind = "fin" /\ b.kind = "fin" -> Fin(RAdd(a.q, b.q), RAdd(a.g, b.g))
          [] a.kind = "fin" -> b
          [] b.kind = "fin" -> a
          [] a.kind = b.kind -> a
          [] OTHER -> NaN)

VSub(x, y) == VAdd(x, VNeg(y))

VDivInt(x, m) ==
    Bind(x, LAMBDA a :
        IF a.kind = "fin" THEN Fin(RDivInt(a.q, m), RDivInt(a.g, m)) ELSE a)

\* gamma = 0.5772...; the rational below decides a comparison exactly whenever
\* the gamma parts of the two sides are equal, as they are for every estimate.
Approx(a) == RAdd(a.q, Rat(a.g.n * 5772, a.g.d * 10000))

\* x > y on float64 values (any comparison with nan is false).
VGreater(x, y) ==
    Bind2(x, y, LAMBDA a, b :
        CASE a.kind = "nan" \/ b.kind = "nan" -> FALSE
          [] a.kind = "inf" -> b.kind # "inf"
          [] a.kind = "-inf" -> FALSE
          [] b.kind = "inf" -> FALSE
          [] b.kind = "-inf" -> TRUE
          [] OTHER -> RLess(Approx(b), Approx(a)))

\* x >= y on float64 values.
VGeq(x, y) ==
    Bind2(x, y, LAMBDA a, b :
        a.kind # "nan" /\ b.kind # "nan" /\ (a = b \/ VGreater(a, b)))

\* The sum of the first n elements of the list s.
RECURSIVE SumTo(_, _)
SumTo(s, n) == IF n = 0 THEN Zero ELSE VAdd(SumTo(s, n - 1), s[n])

\* np.mean of a non-empty list of floats.
Mean(s) == Bind(List(s), LAMBDA l : VDivInt(SumTo(l, Len(l)), Len(l)))

\* Python's max(x, y): the first argument unless the second is greater.
PyMax(x, y) == Bind2(x, y, LAMBDA a, b : IF VGreater(b, a) THEN b ELSE a)

\* scipy.special.digamma at an integer: H(m-1) - gamma for m >= 1, -inf at the
\* pole 0 (reached from the right), nan at the negative poles.
Digamma(m) ==
    IF m >= 1 THEN Fin(Harmonic(m - 1), Rat(-1, 1))
    ELSE IF m = 0 THEN NegInf
    ELSE NaN

\* ------------------------------------------------------------ point clouds
\* An n x 1 array whose i-th entry is c[i] / sqrt(v).
Array(c) == [c |-> c, v |-> 1]

RECURSIVE IntSumTo(_, _)
IntSumTo(s, n) == IF n = 0 THEN 0 ELSE IntSumTo(s, n - 1) + s[n]

IntSum(s) == IntSumTo(s, Len(s))

\* StandardScaler().fit_transform on one column: (x - mean) / std with the
\* biased variance; a zero-variance column is scaled by 1 (sklearn's
\* handling of a zero scale), giving zeros.
Standardize(a) ==
    Bind(Len(a.c), LAMBDA n :
        Bind2(IntSum(a.c), IntSum(List([i \in 1..n |-> a.c[i] * a.c[i]])), LAMBDA s1, s2 :
            IF n * s2 - s1 * s1 = 0
            THEN [c |-> List([i \in 1..n |-> 0]), v |-> 1]
            ELSE [c |-> List([i \in 1..n |-> n * a.c[i] - s1]), v |-> n * s2 - s1 * s1]))

\* The square of the distance between rows i and j under a metric.  On one
\* column the three metrics' formulas give the same number.
SqDistance(metric, a, i, j) ==
    Bind(a.c[i] - a.c[j], LAMBDA d :
        CASE metric = "euclidean" -> [n |-> d * d, d |-> a.v]
          [] metric = "manhattan" -> [n |-> Abs(d) * Abs(d), d |-> a.v]
          [] metric = "chebyshev" -> [n |-> Abs(d) * Abs(d), d |-> a.v])

\* metrics.pairwise_distances(x[None, index], x, metric=...)[0, :]
pairwise_distances(a, index, metric) ==
    List([j \in 1..Len(a.c) |-> SqDistance(metric, a, index, j)])

\* np.maximum(distances_x, distances_y)
maximum(dx, dy) ==
    List([j \in 1..Len(dx) |-> IF RLess(dx[j], dy[j]) THEN dy[j] ELSE dx[j]])

\* sorted(range(len(distances_z)), key=lambda i: distances_z[i]): a stable
\* sort, so ties keep index order.  Indices are 1-based here.
closest_points(dz) ==
    LET n == Len(dz)
        rank(j) == Cardinality({i \in 1..n : RLess(dz[i], dz[j])
                                             \/ (~RLess(dz[j], dz[i]) /\ i < j)})
    IN  List([r \in 1..n |-> CHOOSE j \in 1..n : rank(j) = r - 1])

\* (distances < distance).sum()
CountLess(ds, distance) == Cardinality({j \in 1..Len(ds) : RLess(ds[j], distance)})

\* ------------------------------------------------------------- exceptions
Return(v) == [ok |-> TRUE, exc |-> None, msg |-> None, value |-> v]
Raise(exc, msg) == [ok |-> FALSE, exc |-> exc, msg |-> msg, value |-> <<>>]

Range(s) == {s[i] : i \in 1..Len(s)}

\* min(...) and max(...) of a non-empty list of integers.
SeqMin(s) == CHOOSE m \in Range(s) : \A j \in Range(s) : m <= j
SeqMax(s) == CHOOSE m \in Range(s) : \A j \in Range(s) : j <= m

\* ------------------------------------------------- neighborhood validator
\* Variant: the validator accepting 0.
CheckNonNegative(neighborhoods) ==
    IF Len(neighborhoods) = 0
    THEN Raise("ValueError", "Neighborhoods list must be non-empty.")
    ELSE IF SeqMin(neighborhoods) < 0
    THEN Raise("ValueError", "Each neighborhood must be at least 1.")
    ELSE Return(neighborhoods)

\* _cast_and_check_neighborhoods
cast_and_check_neighborhoods(neighborhoods) ==
    IF Len(neighborhoods) = 0
    THEN Raise("ValueError", "Neighborhoods list must be non-empty.")
    ELSE IF SeqMin(neighborhoods) < 1
    THEN Raise("ValueError", "Each neighborhood must be at least 1.")
    ELSE Return(neighborhoods)

\* ------------------------------------------------------ estimator objects
\* The dict object an estimator owns and the dict object the caller was
\* last handed are the two cells of mi_heap; a reference names a cell.
SelfDict == "self"
RetDict == "ret"
EmptyDict == <<>>

NoIndex == [fitted |-> FALSE, x |-> Array(<<>>), y |-> Array(<<>>)]

NoEstimator ==
    [class |-> "none", neighborhoods |-> <<>>, standardize |-> FALSE,
     metric_x |-> None, metric_y |-> None, fitted |-> FALSE,
     mi_dict |-> None, nn |-> NoIndex]

\* KSGEnsembleFirstEstimator.__init__ after the validator has passed.
FirstEstimator(neighborhoods, standardize, metric_x, metric_y) ==
    [class |-> "first", neighborhoods |-> neighborhoods,
     standardize |-> standardize, metric_x |-> metric_x,
     metric_y |-> IF metric_y = None THEN metric_x ELSE metric_y,
     fitted |-> FALSE, mi_dict |-> SelfDict, nn |-> NoIndex]

\* KSGEnsembleChebyshevEstimator.__init__ after the validator has passed.
ChebyshevEstimator(neighborhoods, standardize) ==
    [class |-> "cheb", neighborhoods |-> neighborhoods,
     standardize |-> standardize, metric_x |-> "chebyshev",
     metric_y |-> "chebyshev", fitted |-> FALSE, mi_dict |-> None,
     nn |-> NoIndex]

\* ------------------------------------------------------------ array cells
\* Variant: np.asarray on an array, which returns the array itself.
NpView(h, src, dst) == [heap |-> h, ref |-> src]

\* np.array(x): a new array object (the cell dst) holding a copy of src.
NpArray(h, src, dst) == [heap |-> [h EXCEPT ![dst] = h[src]], ref |-> dst]

\* StandardScaler(copy=False).fit_transform(x): rescales the array object
\* ref names, in place, and returns it.
FitTransformInPlace(h, ref) == [h EXCEPT ![ref] = Standardize(h[ref])]

\* x, y = np.array(x), np.array(y) on the caller's arrays X and Y.
LocalArrays(X, Y) ==
    Bind(NpArray([cx |-> X, cy |-> Y, x |-> Array(<<>>), y |-> Array(<<>>)], "cx", "x"),
         LAMBDA ax :
        Bind(NpArray(ax.heap, "cy", "y"), LAMBDA ay :
            [heap |-> ay.heap, x |-> ax.ref, y |-> ay.ref]))

\* if self._standardize: x = ...fit_transform(x); y = ...fit_transform(y)
StandardizeStep(standardize, loc) ==
    IF standardize
    THEN [loc EXCEPT !.heap = FitTransformInPlace(FitTransformInPlace(loc.heap, loc.x), loc.y)]
    ELSE loc

\* ------------------------------------------------- brute-force estimation
\* For the point `index` and neighborhood size k: the joint k-th neighbour
\* radius and the marginal counts n_x, n_y.
NeighbourCounts(x, y, index, k, metric_x, metric_y) ==
    Bind2(pairwise_distances(x, index, metric_x),
          pairwise_distances(y, index, metric_y), LAMBDA distances_x, distances_y :
        Bind(maximum(distances_x, distances_y), LAMBDA distances_z :
            Bind(closest_points(distances_z)[k + 1], LAMBDA kth_neighbour :
                Bind(distances_z[kth_neighbour], LAMBDA distance :
                    [distance |-> distance,
                     n_x |-> CountLess(distances_x, distance) - 1,
                     n_y |-> CountLess(distances_y, distance) - 1]))))

digammas_per_point(x, y, index, k, metric_x, metric_y) ==
    Bind(NeighbourCounts(x, y, index, k, metric_x, metric_y), LAMBDA c :
        VAdd(Digamma(c.n_x + 1), Digamma(c.n_y + 1)))

\* digammas_dict[k] when the loops end: one entry per point and per
\* occurrence of k in the neighborhoods list.
digammas_list(self, x, y, k) ==
    Bind(Cardinality({p \in 1..Len(self.neighborhoods) : self.neighborhoods[p] = k}),
         LAMBDA mult :
        List([t \in 1..(Len(x.c) * mult) |->
                digammas_per_point(x, y, ((t - 1) \div mult) + 1, k,
                                   self.metric_x, self.metric_y)]))

\* _DIGAMMA(k) - np.mean(digammas) + _DIGAMMA(n_points)
mi_estimate(self, x, y, k) ==
    VAdd(VSub(Digamma(k), Mean(digammas_list(self, x, y, k))), Digamma(Len(x.c)))

\* Variant: the estimate stored as computed.
Unclamped(v) == v

\* The value stored for k: max(0.0, mi_estimate).
Clamp(v) == PyMax(Zero, v)

\* The entries the final loop of fit writes.
FittedEntries(self, x, y) ==
    [k \in Range(self.neighborhoods) |-> Clamp(mi_estimate(self, x, y, k))]

\* self._mi_dict[k] = ... for every k of `entries`, on the dict d.
DictUpdate(d, entries) ==
    Bind(entries, LAMBDA e :
        [k \in DOMAIN d \cup DOMAIN e |-> IF k \in DOMAIN e THEN e[k] ELSE d[k]])

MsgLength == "Arrays have different length"
MsgPoints == "Maximum neighborhood used is larger than the number of points"

\* if len(x) != len(y): raise ValueError(...)
CheckLengths(x, y) ==
    IF Len(x.c) # Len(y.c) THEN Raise("ValueError", MsgLength) ELSE Return(<<>>)

\* if len(x) <= max(self._neighborhoods): raise ValueError(...)
CheckPoints(self, x) ==
    IF Len(x.c) <= SeqMax(self.neighborhoods)
    THEN Raise("ValueError", MsgPoints)
    ELSE Return(<<>>)

\* Variant: the points check before the length check.
CheckPointsFirst(self, x, y) ==
    Bind(CheckPoints(self, x), LAMBDA chk : IF ~chk.ok THEN chk ELSE CheckLengths(x, y))

\* The two checks of the brute-force fit, in the order of the code.
CheckFit(self, x, y) ==
    Bind(CheckLengths(x, y), LAMBDA chk : IF ~chk.ok THEN chk ELSE CheckPoints(self, x))

\* Variant: fit marks the estimator fitted before it checks its arguments.
RaisedAfterMarking(exc, self, dicts, loc) ==
    [out |-> exc, self |-> [self EXCEPT !.fitted = TRUE], dicts |-> dicts,
     X |-> loc.heap.cx, Y |-> loc.heap.cy]

\* fit left by an exception: the estimator and its dict are as they were.
Raised(exc, self, dicts, loc) ==
    [out |-> exc, self |-> self, dicts |-> dicts, X |-> loc.heap.cx, Y |-> loc.heap.cy]

\* KSGEnsembleFirstEstimator.fit on the caller's arrays X, Y: what it raises
\* or returns, and the estimator, the dict cells and the caller's arrays
\* when it ends.
FirstFit(self, dicts, X, Y) ==
    Bind(LocalArrays(X, Y), LAMBDA loc :
        Bind(CheckFit(self, loc.heap[loc.x], loc.heap[loc.y]), LAMBDA chk :
            IF ~chk.ok THEN Raised(chk, self, dicts, loc)
            ELSE Bind(StandardizeStep(self.standardize, loc), LAMBDA std :
                    [out |-> Return(<<>>),
                     self |-> [self EXCEPT !.fitted = TRUE],
                     dicts |-> [dicts EXCEPT ![self.mi_dict] =
                                   DictUpdate(@, FittedEntries(self, std.heap[std.x],
                                                               std.heap[std.y]))],
                     X |-> std.heap.cx, Y |-> std.heap.cy])))

\* Variant: the dict itself is handed out.
DictAlias(dicts, ref) == [dicts |-> dicts, ref |-> ref]

\* dict.copy(): a new dict object (the caller's cell) with the same entries.
DictCopy(dicts, ref) == [dicts |-> [dicts EXCEPT ![RetDict] = dicts[ref]], ref |-> RetDict]

\* Variant: get_predictions without the fitted guard.
GetPredictionsUnguarded(self, dicts) ==
    Bind(DictCopy(dicts, self.mi_dict), LAMBDA cp :
        [out |-> Return(cp.ref), dicts |-> cp.dicts])

\* KSGEnsembleFirstEstimator.get_predictions
FirstGetPredictions(self, dicts) ==
    IF ~self.fitted
    THEN [out |-> Raise("EstimatorNotFittedException", None), dicts |-> dicts]
    ELSE Bind(DictCopy(dicts, self.mi_dict), LAMBDA cp :
            [out |-> Return(cp.ref), dicts |-> cp.dicts])

\* list(d.values()) in some order (the mean does not depend on it).
RECURSIVE DictValues(_)
DictValues(d) ==
    IF DOMAIN d = {} THEN <<>>
    ELSE Bind(CHOOSE k \in DOMAIN d : \A j \in DOMAIN d : k <= j, LAMBDA k :
            <<d[k]>> \o DictValues([j \in DOMAIN d \ {k} |-> d[j]]))

\* Variant: estimate fits only an estimator that is not fitted yet.
EstimateFitOnce(self, dicts, X, Y) ==
    Bind(IF self.fitted
         THEN [out |-> Return(<<>>), self |-> self, dicts |-> dicts, X |-> X, Y |-> Y]
         ELSE FirstFit(self, dicts, X, Y), LAMBDA f :
        IF ~f.out.ok THEN f
        ELSE [f EXCEPT !.out = Return(Mean(DictValues(f.dicts[f.self.mi_dict])))])

\* KSGEnsembleFirstEstimator.estimate
FirstEstimate(self, dicts, X, Y) ==
    Bind(FirstFit(self, dicts, X, Y), LAMBDA f :
        IF ~f.out.ok THEN f
        ELSE Bind(FirstGetPredictions(f.self, f.dicts), LAMBDA g :
                IF ~g.out.ok THEN [f EXCEPT !.out = g.out]
                ELSE [f EXCEPT !.out = Return(Mean(DictValues(g.dicts[g.out.value])))]))

\* ------------------------------------------------- accelerated estimator
\* KSGEnsembleChebyshevEstimator.fit
ChebFit(self, X, Y) ==
    Bind(LocalArrays(X, Y), LAMBDA loc :
        Bind(CheckLengths(loc.heap[loc.x], loc.heap[loc.y]), LAMBDA chk :
            IF ~chk.ok
            THEN [out |-> chk, self |-> self, X |-> loc.heap.cx, Y |-> loc.heap.cy]
            ELSE Bind(StandardizeStep(self.standardize, loc), LAMBDA std :
                    [out |-> Return(<<>>),
                     self |-> [self EXCEPT !.nn = [fitted |-> TRUE,
                                                   x |-> std.heap[std.x],
                                                   y |-> std.heap[std.y]]],
                     X |-> std.heap.cx, Y |-> std.heap.cy])))

\* An optional neighborhoods argument.
Nothing == [given |-> FALSE, list |-> <<>>]
Some(list) == [given |-> TRUE, list |-> list]

\* KSGEnsembleChebyshevEstimator.predict
ChebPredict(self, neighborhoods) ==
    Bind(IF ~neighborhoods.given THEN Return(self.neighborhoods)
         ELSE cast_and_check_neighborhoods(neighborhoods.list), LAMBDA checked :
        IF ~checked.ok THEN checked
        ELSE Raise("NotImplementedError", None))

\* KSGEnsembleChebyshevEstimator.estimate
ChebEstimate(self, X, Y) ==
    Bind(ChebFit(self, X, Y), LAMBDA f :
        IF ~f.out.ok THEN f
        ELSE Bind(ChebPredict(f.self, Nothing), LAMBDA p :
                IF ~p.ok THEN [f EXCEPT !.out = p]
                ELSE [f EXCEPT !.out = Return(Mean(DictValues(p.value)))]))

\* ------------------------------------------------------------------ inputs
SeqsUpTo(S, n) == UNION {[1..m -> S] : m \in 0..n}

\* Neighborhoods arguments, valid and invalid.
NbhArgs == SeqsUpTo(0..MaxK, MaxNbhLen)

\* metric_x, metric_y arguments (None: metric_y not given).
MetricArgs == {[x |-> "euclidean", y |-> None], [x |-> "manhattan", y |-> "chebyshev"]}

\* Point clouds of 1..n rows, the first row at the origin (the estimates
\* depend on differences of coordinates only).
Clouds(n) == {Array(c) : c \in {s \in SeqsUpTo(Coords, n) : s # <<>> /\ s[1] = 0}}

\* Configurations of a single fit: one size, and a size followed by 1.
FitNeighborhoods == {<<k>> : k \in 1..MaxK} \cup {<<k, 1>> : k \in 1..MaxK}

\* The sample the caller draws from over an estimator's life: row i of X and
\* row i of Y.
SampleX == [i \in 1..MaxLifePoints |-> ((i - 1) \div 2) % 2]
SampleY == [i \in 1..MaxLifePoints |-> (i - 1) % 2]
Prefix(s, n) == Array([i \in 1..n |-> s[i]])

\* Configurations used over an estimator's life.
LifeNeighborhoods == {<<1>>, <<2, 1>>}

\* What a caller writes into a mapping it was handed.
Scribble == Fin(Rat(-1, 1), RZero)

\* ----------------------------------------------------------------- actions
Call(op, args, out) == [op |-> op, args |-> args, out |-> out]

NoCall == Call("init", Nothing, Return(<<>>))

\* estimator = KSGEnsembleFirstEstimator(neighborhoods, standardize, metric_x, metric_y)
NewFirst(neighborhoods, standardize, metric_x, metric_y) ==
    \E chk \in {cast_and_check_neighborhoods(neighborhoods)} :
        /\ est' = IF chk.ok
                  THEN FirstEstimator(chk.value, standardize, metric_x, metric_y)
                  ELSE est
        /\ mi_heap' = IF chk.ok THEN [mi_heap EXCEPT ![SelfDict] = EmptyDict] ELSE mi_heap
        /\ everFitted' = IF chk.ok THEN FALSE ELSE everFitted
        /\ result' = Call("new_first", Some(neighborhoods), chk)
        /\ UNCHANGED <<held, callerX, callerY, passed>>

\* estimator = KSGEnsembleChebyshevEstimator(neighborhoods, standardize)
NewCheb(neighborhoods, standardize) ==
    \E chk \in {cast_and_check_neighborhoods(neighborhoods)} :
        /\ est' = IF chk.ok THEN ChebyshevEstimator(chk.value, standardize) ELSE est
        /\ everFitted' = IF chk.ok THEN FALSE ELSE everFitted
        /\ result' = Call("new_cheb", Some(neighborhoods), chk)
        /\ UNCHANGED <<mi_heap, held, callerX, callerY, passed>>

\* estimator.fit(X, Y)
Fit(X, Y) ==
    /\ \E f \in {FirstFit(est, mi_heap, X, Y)} :
           /\ est' = f.self
           /\ mi_heap' = f.dicts
           /\ callerX' = f.X
           /\ callerY' = f.Y
           /\ passed' = [X |-> X, Y |-> Y]
           /\ result' = Call("fit", Nothing, f.out)
           /\ everFitted' = (everFitted \/ f.out.ok)
           /\ UNCHANGED held

\* estimator.estimate(X, Y)
Estimate(X, Y) ==
    /\ \E f \in {FirstEstimate(est, mi_heap, X, Y)} :
           /\ est' = f.self
           /\ mi_heap' = f.dicts
           /\ callerX' = f.X
           /\ callerY' = f.Y
           /\ passed' = [X |-> X, Y |-> Y]
           /\ result' = Call("estimate", Nothing, f.out)
           /\ everFitted' = (everFitted \/ FirstFit(est, mi_heap, X, Y).out.ok)
           /\ UNCHANGED held

\* held = estimator.get_predictions()
GetPredictions ==
    /\ est.class = "first"
    /\ \E g \in {FirstGetPredictions(est, mi_heap)} :
           /\ mi_heap' = g.dicts
           /\ held' = IF g.out.ok THEN g.out.value ELSE held
           /\ result' = Call("get_predictions", Nothing, g.out)
           /\ UNCHANGED <<est, callerX, callerY, passed, everFitted>>

\* held[k] = Scribble: the caller changes an entry of a mapping it holds, or
\* adds one under 0, which is no neighborhood size.
CallerPut(k) ==
    /\ held # None
    /\ k \in DOMAIN mi_heap[held] \cup {0}
    /\ mi_heap' = [mi_heap EXCEPT ![held] = DictUpdate(@, [j \in {k} |-> Scribble])]
    /\ result' = Call("put", Nothing, Return(<<>>))
    /\ UNCHANGED <<est, held, callerX, callerY, passed, everFitted>>

\* del held[k]: the caller removes an entry of a mapping it holds.
CallerDel(k) ==
    /\ held # None
    /\ k \in DOMAIN mi_heap[held]
    /\ mi_heap' = [mi_heap EXCEPT ![held] = [j \in DOMAIN @ \ {k} |-> @[j]]]
    /\ result' = Call("del", Nothing, Return(<<>>))
    /\ UNCHANGED <<est, held, callerX, callerY, passed, everFitted>>

\* estimator.fit(X, Y) on the accelerated estimator
ChebFitCall(X, Y) ==
    /\ \E f \in {ChebFit(est, X, Y)} :
           /\ est' = f.self
           /\ callerX' = f.X
           /\ callerY' = f.Y
           /\ passed' = [X |-> X, Y |-> Y]
           /\ result' = Call("cheb_fit", Nothing, f.out)
           /\ UNCHANGED <<mi_heap, held, everFitted>>

\* estimator.predict(neighborhoods) on the accelerated estimator
ChebPredictCall(neighborhoods) ==
    /\ result' = Call("cheb_predict", neighborhoods, ChebPredict(est, neighborhoods))
    /\ UNCHANGED <<est, mi_heap, held, callerX, callerY, passed, everFitted>>

\* estimator.estimate(X, Y) on the accelerated estimator
ChebEstimateCall(X, Y) ==
    /\ \E f \in {ChebEstimate(est, X, Y)} :
           /\ est' = f.self
           /\ callerX' = f.X
           /\ callerY' = f.Y
           /\ passed' = [X |-> X, Y |-> Y]
           /\ result' = Call("cheb_estimate", Nothing, f.out)
           /\ UNCHANGED <<mi_heap, held, everFitted>>

\* ---------------------------------------------------------- specifications
NoArrays == [X |-> Array(<<>>), Y |-> Array(<<>>)]

\* Nothing constructed, nothing called.
InitEmpty ==
    /\ est = NoEstimator
    /\ mi_heap = [self |-> EmptyDict, ret |-> EmptyDict]
    /\ held = None
    /\ callerX = Array(<<>>)
    /\ callerY = Array(<<>>)
    /\ passed = NoArrays
    /\ result = NoCall
    /\ everFitted = FALSE

\* Spec: the life of one brute-force estimator, fed prefixes of one sample.
Init == InitEmpty

Construct ==
    \E n \in LifeNeighborhoods, s \in BOOLEAN :
        est.class = "none" /\ NewFirst(n, s, "euclidean", None)

\* The lengths of the arrays of one call: equal, or Y one row short.
PrefixLengths == {<<n, m>> \in (1..MaxLifePoints) \X (1..MaxLifePoints) : m \in {n, n - 1}}

FitPrefix ==
    \E <<n, m>> \in PrefixLengths :
        est.class = "first" /\ Fit(Prefix(SampleX, n), Prefix(SampleY, m))

EstimatePrefix ==
    \E <<n, m>> \in PrefixLengths :
        est.class = "first" /\ Estimate(Prefix(SampleX, n), Prefix(SampleY, m))

Put == \E k \in 0..MaxK : CallerPut(k)

Del == \E k \in 1..MaxK : CallerDel(k)

Next ==
    \/ Construct
    \/ FitPrefix
    \/ EstimatePrefix
    \/ GetPredictions
    \/ Put
    \/ Del

Spec == Init /\ [][Next]_vars

\* SpecValidator: the validator behind both constructors and predict().
ConstructFirst ==
    \E n \in NbhArgs, s \in BOOLEAN, m \in MetricArgs : NewFirst(n, s, m.x, m.y)

ConstructCheb == \E n \in NbhArgs, s \in BOOLEAN : NewCheb(n, s)

PredictOverride == \E n \in NbhArgs : est.class = "cheb" /\ ChebPredictCall(Some(n))

NextValidator ==
    \/ ConstructFirst
    \/ ConstructCheb
    \/ PredictOverride

SpecValidator == InitEmpty /\ [][NextValidator]_vars

\* SpecFit: one call on a freshly constructed estimator, over every pair of
\* point clouds.
InitFit ==
    /\ est \in {FirstEstimator(n, s, "euclidean", None) :
                    n \in FitNeighborhoods, s \in BOOLEAN}
               \cup {ChebyshevEstimator(n, s) : n \in FitNeighborhoods, s \in BOOLEAN}
    /\ mi_heap = [self |-> EmptyDict, ret |-> EmptyDict]
    /\ held = None
    /\ callerX \in Clouds(MaxPoints)
    /\ callerY \in Clouds(MaxPoints)
    /\ passed = NoArrays
    /\ result = NoCall
    /\ everFitted = FALSE

FitOnce == result.op = "init" /\ est.class = "first" /\ Fit(callerX, callerY)

EstimateOnce == result.op = "init" /\ est.class = "first" /\ Estimate(callerX, callerY)

ChebFitOnce == result.op = "init" /\ est.class = "cheb" /\ ChebFitCall(callerX, callerY)

ChebEstimateOnce ==
    result.op = "init" /\ est.class = "cheb" /\ ChebEstimateCall(callerX, callerY)

ChebPredictAfterFit ==
    result.op = "cheb_fit" /\ est.class = "cheb" /\ ChebPredictCall(Nothing)

NextFit ==
    \/ FitOnce
    \/ EstimateOnce
    \/ ChebFitOnce
    \/ ChebEstimateOnce
    \/ ChebPredictAfterFit

SpecFit == InitFit /\ [][NextFit]_vars

\* -------------------------------------------------------------- properties
\* The arrays fit computes on, given what the caller passed.
Scaled(self, a) == IF self.standardize THEN Standardize(a) ELSE a

\* The mapping a successful brute-force fit of `self` on X, Y must store.
Expected(self, X, Y) == FittedEntries(self, Scaled(self, X), Scaled(self, Y))

\* The mapping the estimator owns.
Stored == mi_heap[est.mi_dict]

LastFit == result.op \in {"fit", "estimate"}
LastChebFit == result.op \in {"cheb_fit", "cheb_estimate"}
NotFitted == Raise("EstimatorNotFittedException", None)

\* C1: after a successful fit (alone or inside estimate) the mapping holds,
\* for every configured k, a value >= 0: the clamped estimate may be 0.0 or
\* +inf but never negative and never nan.
StoredEstimatesNonNegative ==
    (LastFit /\ result.out.ok) =>
        \A k \in Range(est.neighborhoods) :
            k \in DOMAIN Stored /\ VGeq(Stored[k], Zero)

\* A successful fit whose unclamped estimate for some k is negative, on a
\* cloud with duplicated points.
ClampedNegativeEstimate ==
    /\ result.op = "fit"
    /\ result.out.ok
    /\ \E i, j \in 1..Len(passed.X.c) : i # j /\ passed.X.c[i] = passed.X.c[j]
    /\ \E k \in Range(est.neighborhoods) :
           /\ VGreater(Zero, mi_estimate(est, Scaled(est, passed.X), Scaled(est, passed.Y), k))
           /\ Stored[k] = Zero

\* C2: get_predictions() raises the not-fitted exception in every state of a
\* brute-force estimator no fit of which has returned normally, and returns
\* in every state after one has.
NotFittedUntilSuccessfulFit ==
    est.class = "first" =>
        /\ FirstGetPredictions(est, mi_heap).out =
               (IF everFitted THEN Return(RetDict) ELSE NotFitted)
        /\ result.op = "get_predictions" => (result.out.ok <=> everFitted)

\* get_predictions() has just raised on an estimator whose only fits failed.
RaisedAfterFailedFit ==
    /\ result.op = "get_predictions"
    /\ result.out = NotFitted
    /\ passed # NoArrays

\* C3: brute-force fit raises the length error whenever len(X) # len(Y),
\* otherwise the too-few-points error whenever max(neighborhoods) >= len(X),
\* and otherwise returns normally.
FitErrorPrecedence ==
    result.op = "fit" =>
        result.out =
            (IF Len(passed.X.c) # Len(passed.Y.c) THEN Raise("ValueError", MsgLength)
             ELSE IF SeqMax(est.neighborhoods) >= Len(passed.X.c)
                  THEN Raise("ValueError", MsgPoints)
             ELSE Return(<<>>))

\* The boundary: a fit with equal lengths and max(neighborhoods) = len(X)
\* has raised the too-few-points error.
BoundaryFitRejected ==
    /\ result.op = "fit"
    /\ Len(passed.X.c) = Len(passed.Y.c)
    /\ SeqMax(est.neighborhoods) = Len(passed.X.c)
    /\ result.out = Raise("ValueError", MsgPoints)

\* C4: a step of fit either returns with the estimator fitted and an entry
\* stored for every configured k, or raises with the fitted flag and the
\* stored mapping as they were before the call.
FitAllOrNothing ==
    [][result'.op = "fit" =>
          IF result'.out.ok
          THEN est'.fitted /\ Range(est'.neighborhoods) \subseteq DOMAIN mi_heap'[est'.mi_dict]
          ELSE est'.fitted = est.fitted /\ mi_heap'[est'.mi_dict] = mi_heap[est.mi_dict]]_vars

\* A fit has failed on an estimator that an earlier fit had fitted.
FailedFitKeptMapping ==
    /\ result.op = "fit"
    /\ ~result.out.ok
    /\ est.fitted
    /\ Stored # EmptyDict

\* The brute-force estimator with Chebyshev for both metrics and the
\* configuration of the accelerated estimator held.
BruteForce == FirstEstimator(est.neighborhoods, est.standardize, "chebyshev", "chebyshev")
NoDicts == [self |-> EmptyDict, ret |-> EmptyDict]

\* C5 (as the specification states it): after a successful accelerated fit,
\* predict() returns the mapping brute-force fit + get_predictions() gives on
\* the same inputs, and the accelerated estimate(X, Y) returns what the
\* brute-force estimate(X, Y) returns.
ChebyshevMatchesBruteForce ==
    /\ (result.op = "cheb_predict" /\ est.nn.fitted
            /\ FirstFit(BruteForce, NoDicts, passed.X, passed.Y).out.ok) =>
           /\ result.out.ok
           /\ result.out.value = Expected(BruteForce, passed.X, passed.Y)
    /\ result.op = "cheb_estimate" =>
           result.out = FirstEstimate(BruteForce, NoDicts, passed.X, passed.Y).out

\* C6 (as the specification states it): the accelerated fit raises the length
\* error when len(X) # len(Y) and the too-few-points error when
\* max(neighborhoods) >= len(X), and has built no index in either case.
ChebyshevFitPreconditions ==
    (result.op = "cheb_fit"
        /\ (Len(passed.X.c) # Len(passed.Y.c)
               \/ SeqMax(est.neighborhoods) >= Len(passed.X.c))) =>
        /\ result.out = CheckFit(est, passed.X, passed.Y)
        /\ ~est.nn.fitted

\* C7: estimate(X, Y) fits on this call's X, Y whatever the estimator held
\* before; when it returns, the estimator is fitted, the stored mapping is
\* the one computed from X, Y, and the value returned is the mean of the
\* values get_predictions() now returns; when it raises, it raises what fit
\* raises on X, Y.
EstimateRefits ==
    result.op = "estimate" =>
        IF result.out.ok
        THEN /\ est.fitted
             /\ CheckFit(est, passed.X, passed.Y).ok
             /\ Stored = Expected(est, passed.X, passed.Y)
             /\ \E g \in {FirstGetPredictions(est, mi_heap)} :
                    /\ g.out.ok
                    /\ result.out.value = Mean(DictValues(g.dicts[g.out.value]))
        ELSE result.out = FirstFit(est, mi_heap, passed.X, passed.Y).out

\* estimate has returned on an estimator that was fitted before the call (a
\* mapping had been handed out) and the mapping it stored is not the one
\* handed out.
EstimateOnFittedEstimator ==
    /\ result.op = "estimate"
    /\ result.out.ok
    /\ held # None
    /\ DOMAIN mi_heap[held] = DOMAIN Stored
    /\ mi_heap[held] # Stored

\* C8: get_predictions() hands out a mapping equal to the stored one; a
\* caller's write to or deletion from a mapping it holds changes neither
\* the stored mapping nor what the next get_predictions() returns; a fit or
\* estimate changes no mapping handed out earlier.
ReturnedMappingIsACopy ==
    [][/\ (result'.op = "get_predictions" /\ result'.out.ok) =>
              /\ mi_heap'[held'] = mi_heap[est.mi_dict]
              /\ mi_heap'[est'.mi_dict] = mi_heap[est.mi_dict]
       /\ result'.op \in {"put", "del"} =>
              /\ mi_heap'[est'.mi_dict] = mi_heap[est.mi_dict]
              /\ \E g \in {FirstGetPredictions(est', mi_heap')} :
                     g.dicts[g.out.value] = mi_heap[est.mi_dict]
       /\ (result'.op \in {"fit", "estimate"} /\ held # None) =>
              mi_heap'[held'] = mi_heap[held]]_vars

\* A fit has returned while the caller holds a mapping it has changed, and
\* the two mappings differ.
CallerMappingApartFromStored ==
    /\ result.op = "fit"
    /\ result.out.ok
    /\ held # None
    /\ 0 \in DOMAIN mi_heap[held]
    /\ mi_heap[held] # Stored

\* A neighborhoods argument the validator must reject.
Invalid(list) == list = <<>> \/ \E i \in 1..Len(list) : list[i] < 1

\* C9: both constructors and predict(neighborhoods) raise the validator's
\* ValueError exactly on an empty sequence or one with an element < 1; on
\* any other sequence a constructor returns and holds the same elements in
\* the same order, and predict gets past the validator.
ValidatorContract ==
    result.args.given =>
        IF Invalid(result.args.list)
        THEN /\ ~result.out.ok
             /\ result.out.exc = "ValueError"
             /\ result.out = cast_and_check_neighborhoods(result.args.list)
        ELSE /\ cast_and_check_neighborhoods(result.args.list) = Return(result.args.list)
             /\ result.op \in {"new_first", "new_cheb"} =>
                    result.out.ok /\ est.neighborhoods = result.args.list
             /\ result.op = "cheb_predict" => result.out.exc # "ValueError"

\* A constructor has accepted an unsorted list and holds it in that order.
UnsortedListKept ==
    /\ result.op = "new_first"
    /\ result.args.list = <<MaxK, 1>>
    /\ result.out.ok
    /\ est.neighborhoods = <<MaxK, 1>>

\* C10: after fit or estimate of either estimator, returned or raised, the
\* caller's arrays hold what they held when the call began.
CallerArraysUntouched ==
    (LastFit \/ LastChebFit) => callerX = passed.X /\ callerY = passed.Y

\* A fit with standardization on has returned, on arrays that
\* standardization rescales.
StandardizedFitLeftInputs ==
    /\ LastFit
    /\ result.out.ok
    /\ est.standardize
    /\ Standardize(passed.X) # passed.X
    /\ Standardize(passed.Y) # passed.Y
    /\ callerX = passed.X

\* C11 (as the specification states it): in a brute-force fit that has
\* returned, for every point i and configured k the count n_x the digamma
\* term uses is the number of points j # i whose distance to i in X is below
\* the joint k-th neighbour radius, n_y likewise in Y, and neither is
\* negative.
CountsExcludeOnlyThePoint ==
    (result.op = "fit" /\ result.out.ok) =>
        \A index \in 1..Len(passed.X.c), k \in Range(est.neighborhoods) :
            \E x \in {Scaled(est, passed.X)}, y \in {Scaled(est, passed.Y)} :
                \E c \in {NeighbourCounts(x, y, index, k, est.metric_x, est.metric_y)} :
                    /\ c.n_x = Cardinality({j \in 1..Len(x.c) \ {index} :
                                   RLess(SqDistance(est.metric_x, x, index, j), c.distance)})
                    /\ c.n_y = Cardinality({j \in 1..Len(y.c) \ {index} :
                                   RLess(SqDistance(est.metric_y, y, index, j), c.distance)})
                    /\ c.n_x >= 0
                    /\ c.n_y >= 0

====
